---- MODULE Spec2Model ----
(***************************************************************************)
(* A model of mystudybuddy_mlv.py: the command line study tool that reads  *)
(* a document, extracts terms, generates multiple-choice questions and     *)
(* prints a sampled "knowledge graph".                                     *)
(*                                                                         *)
(* Strings are sequences of one-character strings, so that strip, lower,   *)
(* upper, split, splitext and substring search are computed.               *)
(***************************************************************************)
EXTENDS Integers, Sequences, FiniteSets

VARIABLES
    pc,             \* position of the program
    caller,         \* "start_quiz" when a function runs on behalf of start_quiz, else "none"
    nlp,            \* global nlp handle is loaded (TRUE) or None (FALSE)
    text_generator, \* global text_generator handle is loaded or None
    filepath,       \* argument of extract_text_from_file
    file,           \* content of the file at filepath: a sequence of units
    ext,            \* local ext of extract_text_from_file
    text,           \* local text of extract_text_from_file
    pages,          \* local pages / slides_text accumulator
    i,              \* loop index of the loop in progress
    taken,          \* decoding branches entered by the current call
    ocrPages,       \* PDF pages handed to pytesseract by the current call
    warned,         \* the except block of extract_text_from_file printed its warning
    retText,        \* value returned by extract_text_from_file
    text_data,      \* study material of start_quiz / argument of extract_entities
    entities,       \* local entities of extract_entities, then of start_quiz
    nerEnts,        \* what the NER step left in entities
    padding,        \* what random.sample added to entities
    padded,         \* the padding branch ran
    kg,             \* knowledge graph: entity -> bag of related entities
    quiz_questions, \* list of question records
    genLog,         \* per question: generator output, path taken, parsed answer
    out,            \* console output events
    exitAt          \* index of the question answered with the exit sentinel, 0 if none

vars == <<pc, caller, nlp, text_generator, filepath, file, ext, text, pages, i,
          taken, ocrPages, warned, retText, text_data, entities, nerEnts,
          padding, padded, kg, quiz_questions, genLog, out, exitAt>>

extractVars == <<filepath, file, ext, text, pages, i, taken, ocrPages, warned, retText>>
entityVars == <<entities, nerEnts, padding, padded>>
quizVars == <<quiz_questions, genLog, out, exitAt>>

-----------------------------------------------------------------------------
(* Bounds *)

MaxUnits == 2        \* paragraphs / pages / shapes in a file
MaxTextWords == 2    \* tokens of a short study text
MaxRepeat == 10      \* repetitions of one token in a long study text
MaxNer == 5          \* results of one NER call
MaxGenLines == 3     \* lines of one generator output
MaxKgEntities == 5   \* entities handed to build_knowledge_graph on its own
MaxQuizWords == 3    \* tokens of the study material of a whole run

-----------------------------------------------------------------------------
(* Strings *)

Range(s) == {s[n] : n \in DOMAIN s}

Min(a, b) == IF a < b THEN a ELSE b

Whitespace == {" ", "\n", "\t"}

LowerLetters ==
    <<"a", "b", "c", "d", "e", "f", "g", "h", "i", "j", "k", "l", "m", "n", "o",
      "p", "q", "r", "s", "t", "u", "v", "w", "x", "y", "z">>
UpperLetters ==
    <<"A", "B", "C", "D", "E", "F", "G", "H", "I", "J", "K", "L", "M", "N", "O",
      "P", "Q", "R", "S", "T", "U", "V", "W", "X", "Y", "Z">>

LowerChar(c) ==
    IF \E n \in 1..26 : UpperLetters[n] = c
    THEN LowerLetters[CHOOSE n \in 1..26 : UpperLetters[n] = c]
    ELSE c

UpperChar(c) ==
    IF \E n \in 1..26 : LowerLetters[n] = c
    THEN UpperLetters[CHOOSE n \in 1..26 : LowerLetters[n] = c]
    ELSE c

\* str.lower()
Lower(s) == [n \in DOMAIN s |-> LowerChar(s[n])]

\* str.upper()
Upper(s) == [n \in DOMAIN s |-> UpperChar(s[n])]

\* str.strip()
Strip(s) ==
    LET keep == {n \in DOMAIN s : s[n] \notin Whitespace}
    IN IF keep = {} THEN <<>>
       ELSE LET lo == CHOOSE n \in keep : \A m \in keep : n <= m
                hi == CHOOSE n \in keep : \A m \in keep : m <= n
            IN SubSeq(s, lo, hi)

\* sep.join(parts)
RECURSIVE Join(_, _)
Join(sep, parts) ==
    IF parts = <<>> THEN <<>>
    ELSE IF Len(parts) = 1 THEN parts[1]
    ELSE parts[1] \o sep \o Join(sep, Tail(parts))

\* s.rfind(c), 1-based, 0 when c does not occur
RFind(s, c) ==
    LET at == {n \in DOMAIN s : s[n] = c}
    IN IF at = {} THEN 0 ELSE CHOOSE n \in at : \A m \in at : m <= n

\* os.path.splitext(p)[1] on a POSIX path
SplitextExt(p) ==
    LET sepIndex == RFind(p, "/")
        dotIndex == RFind(p, ".")
    IN IF dotIndex > sepIndex
          /\ \E n \in (sepIndex + 1)..(dotIndex - 1) : p[n] # "."
       THEN SubSeq(p, dotIndex, Len(p))
       ELSE <<>>

\* str.split(): the maximal runs of non-whitespace characters
RECURSIVE SplitWs(_)
SplitWs(s) ==
    LET keep == {n \in DOMAIN s : s[n] \notin Whitespace}
    IN IF keep = {} THEN <<>>
       ELSE LET lo == CHOOSE n \in keep : \A m \in keep : n <= m
                stop == {n \in lo..Len(s) : s[n] \in Whitespace}
                hi == IF stop = {} THEN Len(s)
                      ELSE (CHOOSE n \in stop : \A m \in stop : n <= m) - 1
            IN <<SubSeq(s, lo, hi)>> \o SplitWs(SubSeq(s, hi + 1, Len(s)))

\* s.split(c) for a one-character separator c
RECURSIVE SplitOn(_, _)
SplitOn(s, c) ==
    LET at == {n \in DOMAIN s : s[n] = c}
    IN IF at = {} THEN <<s>>
       ELSE LET first == CHOOSE n \in at : \A m \in at : n <= m
            IN <<SubSeq(s, 1, first - 1)>> \o SplitOn(SubSeq(s, first + 1, Len(s)), c)

\* the places where pat occurs in s
Occurrences(s, pat) ==
    {n \in 1..(Len(s) - Len(pat) + 1) : SubSeq(s, n, n + Len(pat) - 1) = pat}

\* pat in s
Contains(s, pat) == Occurrences(s, pat) # {}

\* s.split(pat)[-1]: what follows the last occurrence of pat
AfterLast(s, pat) ==
    LET at == Occurrences(s, pat)
    IN IF at = {} THEN s
       ELSE LET last == CHOOSE n \in at : \A m \in at : m <= n
            IN SubSeq(s, last + Len(pat), Len(s))

Count(s, v) == Cardinality({n \in DOMAIN s : s[n] = v})

\* random.sample(population, k): every ordered choice of k distinct positions
SampleOutcomes(population, k) ==
    {s \in [1..k -> Range(population)] :
        \A v \in Range(population) : Count(s, v) <= Count(population, v)}

-----------------------------------------------------------------------------
(* extract_text_from_file *)

\* a unit is a paragraph, a page or a shape: has = FALSE when the library gives
\* None (page.extract_text()) or no text attribute (shape) for it
Layers == {<<>>, <<"a", "b">>, <<" ", "c", "\n">>}
Ocrs == {<<>>, <<"o", " ">>}
Units == {u \in [has : BOOLEAN, layer : Layers, ocr : Ocrs] : ~u.has => u.layer = <<>>}

Files == UNION {[1..n -> Units] : n \in 0..MaxUnits}

LayerText(u) == u.layer

\* not t, for t = page.extract_text()
NoTextLayer(u) == ~u.has \/ u.layer = <<>>

Dirs == {<<>>, <<"d", "/">>, <<"d", ".", "e", "/">>}
Stems == {<<>>, <<"a">>, <<".">>, <<"a", ".", "b">>}
Exts == {<<>>,
         <<".", "t", "x", "t">>, <<".", "T", "X", "T">>,
         <<".", "j", "a", "v", "a">>,
         <<".", "d", "o", "c", "x">>, <<".", "D", "o", "c", "X">>,
         <<".", "p", "d", "f">>, <<".", "P", "D", "F">>,
         <<".", "p", "p", "t", "x">>,
         <<".", "p", "n", "g">>,
         <<".", "j", "p", "g">>, <<".", "J", "p", "G">>,
         <<".", "j", "p", "e", "g">>,
         <<".", "d", "o", "c">>, <<".", "t", "x">>, <<".", "p", "y">>}

Paths == {d \o s \o e : d \in Dirs, s \in Stems, e \in Exts}

\* line 27
NormExtNoLower(p) == SplitextExt(p)
NormExt(p) == Lower(SplitextExt(p))

\* the if / elif chain of lines 30-54
Branch(e) ==
    CASE e \in {<<".", "t", "x", "t">>, <<".", "j", "a", "v", "a">>} -> "x_plain"
      [] e = <<".", "d", "o", "c", "x">> -> "x_docx"
      [] e = <<".", "p", "d", "f">> -> "x_pdf_open"
      [] e = <<".", "p", "p", "t", "x">> -> "x_pptx_open"
      [] e \in {<<".", "p", "n", "g">>, <<".", "j", "p", "g">>, <<".", "j", "p", "e", "g">>} -> "x_image"
      [] OTHER -> "x_return"

DecodingPcs == {"x_plain", "x_docx", "x_pdf_open", "x_pdf_page", "x_pdf_ocr",
                "x_pptx_open", "x_pptx_shape", "x_image"}

\* where an exception raised at a decoding call goes: the try of lines 29-58
HandlerNarrow(at) == IF at \in {"x_pdf_page", "x_pdf_ocr", "x_pptx_shape"} THEN "uncaught" ELSE "x_except"
Handler(at) == "x_except"

\* lines 27-30: ext, text = "", and the dispatch
Dispatch ==
    /\ pc = "x_entry"
    /\ ext' = NormExt(filepath)
    /\ text' = <<>>
    /\ pc' = Branch(NormExt(filepath))
    /\ UNCHANGED <<caller, nlp, text_generator, filepath, file, pages, i, taken,
                   ocrPages, warned, retText, text_data, kg>>
    /\ UNCHANGED <<entityVars, quizVars>>

\* lines 31-32
ReadPlain ==
    /\ pc = "x_plain"
    /\ taken' = taken \cup {"plain"}
    /\ text' = Join(<<"\n">>, [n \in DOMAIN file |-> LayerText(file[n])])
    /\ pc' = "x_return"
    /\ UNCHANGED <<caller, nlp, text_generator, filepath, file, ext, pages, i,
                   ocrPages, warned, retText, text_data, kg>>
    /\ UNCHANGED <<entityVars, quizVars>>

\* lines 34-35
ReadDocx ==
    /\ pc = "x_docx"
    /\ taken' = taken \cup {"docx"}
    /\ text' = Join(<<"\n">>, [n \in DOMAIN file |-> LayerText(file[n])])
    /\ pc' = "x_return"
    /\ UNCHANGED <<caller, nlp, text_generator, filepath, file, ext, pages, i,
                   ocrPages, warned, retText, text_data, kg>>
    /\ UNCHANGED <<entityVars, quizVars>>

\* lines 37-38
PdfOpen ==
    /\ pc = "x_pdf_open"
    /\ taken' = taken \cup {"pdf"}
    /\ pages' = <<>>
    /\ i' = 1
    /\ pc' = "x_pdf_page"
    /\ UNCHANGED <<caller, nlp, text_generator, filepath, file, ext, text,
                   ocrPages, warned, retText, text_data, kg>>
    /\ UNCHANGED <<entityVars, quizVars>>

\* lines 39-41 and 44: page.extract_text() of the next page
PdfPage ==
    /\ pc = "x_pdf_page"
    /\ i <= Len(file)
    /\ IF NoTextLayer(file[i])
       THEN /\ pc' = "x_pdf_ocr"
            /\ UNCHANGED <<pages, i>>
       ELSE /\ pages' = Append(pages, file[i].layer)
            /\ i' = i + 1
            /\ pc' = "x_pdf_page"
    /\ UNCHANGED <<caller, nlp, text_generator, filepath, file, ext, text, taken,
                   ocrPages, warned, retText, text_data, kg>>
    /\ UNCHANGED <<entityVars, quizVars>>

\* lines 42-44: the OCR fallback of a page
PdfOcr ==
    /\ pc = "x_pdf_ocr"
    /\ ocrPages' = ocrPages \cup {i}
    /\ pages' = Append(pages, file[i].ocr)
    /\ i' = i + 1
    /\ pc' = "x_pdf_page"
    /\ UNCHANGED <<caller, nlp, text_generator, filepath, file, ext, text, taken,
                   warned, retText, text_data, kg>>
    /\ UNCHANGED <<entityVars, quizVars>>

\* line 45
PdfJoin ==
    /\ pc = "x_pdf_page"
    /\ i > Len(file)
    /\ text' = Join(<<"\n">>, pages)
    /\ pc' = "x_return"
    /\ UNCHANGED <<caller, nlp, text_generator, filepath, file, ext, pages, i, taken,
                   ocrPages, warned, retText, text_data, kg>>
    /\ UNCHANGED <<entityVars, quizVars>>

\* lines 47-48
PptxOpen ==
    /\ pc = "x_pptx_open"
    /\ taken' = taken \cup {"pptx"}
    /\ pages' = <<>>
    /\ i' = 1
    /\ pc' = "x_pptx_shape"
    /\ UNCHANGED <<caller, nlp, text_generator, filepath, file, ext, text,
                   ocrPages, warned, retText, text_data, kg>>
    /\ UNCHANGED <<entityVars, quizVars>>

\* lines 49-52
PptxShape ==
    /\ pc = "x_pptx_shape"
    /\ i <= Len(file)
    /\ pages' = IF file[i].has THEN Append(pages, file[i].layer) ELSE pages
    /\ i' = i + 1
    /\ UNCHANGED <<pc, caller, nlp, text_generator, filepath, file, ext, text, taken,
                   ocrPages, warned, retText, text_data, kg>>
    /\ UNCHANGED <<entityVars, quizVars>>

\* line 53
PptxJoin ==
    /\ pc = "x_pptx_shape"
    /\ i > Len(file)
    /\ text' = Join(<<"\n">>, pages)
    /\ pc' = "x_return"
    /\ UNCHANGED <<caller, nlp, text_generator, filepath, file, ext, pages, i, taken,
                   ocrPages, warned, retText, text_data, kg>>
    /\ UNCHANGED <<entityVars, quizVars>>

\* lines 55-56: OCR of the image
ImageOcr ==
    /\ pc = "x_image"
    /\ taken' = taken \cup {"image"}
    /\ text' = IF file = <<>> THEN <<>> ELSE file[1].ocr
    /\ pc' = "x_return"
    /\ UNCHANGED <<caller, nlp, text_generator, filepath, file, ext, pages, i,
                   ocrPages, warned, retText, text_data, kg>>
    /\ UNCHANGED <<entityVars, quizVars>>

\* any library call of a branch raises
DecodeRaises ==
    /\ pc \in DecodingPcs
    /\ pc' = Handler(pc)
    /\ taken' = taken \cup
          {CASE pc = "x_plain" -> "plain" [] pc = "x_docx" -> "docx"
             [] pc \in {"x_pdf_open", "x_pdf_page", "x_pdf_ocr"} -> "pdf"
             [] pc \in {"x_pptx_open", "x_pptx_shape"} -> "pptx"
             [] pc = "x_image" -> "image"}
    /\ UNCHANGED <<caller, nlp, text_generator, filepath, file, ext, text, pages, i,
                   ocrPages, warned, retText, text_data, kg>>
    /\ UNCHANGED <<entityVars, quizVars>>

\* lines 57-58
Except ==
    /\ pc = "x_except"
    /\ warned' = TRUE
    /\ pc' = "x_return"
    /\ UNCHANGED <<caller, nlp, text_generator, filepath, file, ext, text, pages, i,
                   taken, ocrPages, retText, text_data, kg>>
    /\ UNCHANGED <<entityVars, quizVars>>

\* line 59
Return ==
    /\ pc = "x_return"
    /\ retText' = Strip(text)
    /\ pc' = IF caller = "start_quiz" THEN "sq_after_extract" ELSE "x_done"
    /\ UNCHANGED <<caller, nlp, text_generator, filepath, file, ext, text, pages, i,
                   taken, ocrPages, warned, text_data, kg>>
    /\ UNCHANGED <<entityVars, quizVars>>

ExtractSteps ==
    \/ Dispatch \/ ReadPlain \/ ReadDocx
    \/ PdfOpen \/ PdfPage \/ PdfOcr \/ PdfJoin
    \/ PptxOpen \/ PptxShape \/ PptxJoin
    \/ ImageOcr \/ DecodeRaises \/ Except \/ Return

\* a call extract_text_from_file(filepath) on an existing file
InitExtract ==
    /\ pc = "x_entry"
    /\ caller = "none"
    /\ nlp = FALSE /\ text_generator = FALSE
    /\ filepath \in Paths
    /\ file \in Files
    /\ ext = <<>> /\ text = <<>>
    /\ pages = <<>> /\ i = 0 /\ taken = {} /\ ocrPages = {}
    /\ warned = FALSE /\ retText = <<>>
    /\ text_data = <<>> /\ entities = <<>> /\ nerEnts = <<>>
    /\ padding = <<>> /\ padded = FALSE
    /\ kg = <<>> /\ quiz_questions = <<>> /\ genLog = <<>>
    /\ out = <<>> /\ exitAt = 0

NextExtract == ExtractSteps

SpecExtract == InitExtract /\ [][NextExtract]_vars

-----------------------------------------------------------------------------
(* C3, C5: extract_text_from_file *)

\* C3: extract_text_from_file never raises; when a decoding call of the branch
\* fails, at any point, no text has been assigned (no partial extraction), the
\* warning is printed and the empty string is returned; an empty file also
\* returns the empty string.
C3_FailureYieldsEmpty ==
    /\ pc # "uncaught"
    /\ pc = "x_except" => text = <<>>
    /\ (pc = "x_done" /\ warned) => retText = <<>>
    /\ (pc = "x_done" /\ file = <<>>) => retText = <<>>

\* a PDF or slide deck failed on a later unit after an earlier one gave text
C3_Witness ==
    /\ pc = "x_done"
    /\ warned
    /\ retText = <<>>
    /\ \E n \in DOMAIN pages : pages[n] # <<>>

\* the extension of a path: the suffix of its last component from the last
\* dot on, provided a character other than a dot comes before that dot
C5_Extension(p) ==
    LET comp == SubSeq(p, RFind(p, "/") + 1, Len(p))
        dot == RFind(comp, ".")
    IN IF \E n \in 1..(dot - 1) : comp[n] # "." THEN SubSeq(comp, dot, Len(comp)) ELSE <<>>

C5_Table(e) ==
    CASE e = <<".", "t", "x", "t">> -> {"plain"}
      [] e = <<".", "j", "a", "v", "a">> -> {"plain"}
      [] e = <<".", "d", "o", "c", "x">> -> {"docx"}
      [] e = <<".", "p", "d", "f">> -> {"pdf"}
      [] e = <<".", "p", "p", "t", "x">> -> {"pptx"}
      [] e = <<".", "p", "n", "g">> -> {"image"}
      [] e = <<".", "j", "p", "g">> -> {"image"}
      [] e = <<".", "j", "p", "e", "g">> -> {"image"}
      [] OTHER -> {}

\* C5: the decoding path is selected by the extension alone, compared without
\* regard to letter case; at most one path is entered per call; an extension
\* outside the table enters none and the call returns the empty string; a PDF
\* page goes to OCR only when its text layer is empty.
C5_DispatchByExtension ==
    /\ Cardinality(taken) <= 1
    /\ \A n \in ocrPages : n \in DOMAIN file /\ NoTextLayer(file[n])
    /\ pc = "x_done" =>
          /\ taken = C5_Table(Lower(C5_Extension(filepath)))
          /\ taken = {} => retText = <<>>

\* an upper-case .PDF went down the PDF path and one of its pages went to OCR
C5_Witness ==
    /\ pc = "x_done"
    /\ SplitextExt(filepath) = <<".", "P", "D", "F">>
    /\ taken = {"pdf"}
    /\ ocrPages # {}
    /\ ocrPages # DOMAIN file

-----------------------------------------------------------------------------
(* extract_entities *)

W1 == <<"a", "b", "c", "d">>
W2 == <<"e", "f", "g", "h", "i">>
W3 == <<"a", "b", "c">>
N1 == <<"P", "a">>

Vocabulary == {W1, W2, W3}
NerValues == {W1, W2, N1}

\* a text whose tokens are ws
TextOf(ws) == <<" ">> \o Join(<<" ", "\n">>, ws)

ShortTexts == {TextOf(ws) : ws \in UNION {[1..n -> Vocabulary] : n \in 0..MaxTextWords}}
LongTexts == {TextOf([n \in 1..(r + 1) |-> IF n <= r THEN W1 ELSE W2]) : r \in (MaxRepeat - 2)..MaxRepeat}
Texts == ShortTexts \cup LongTexts

NerResults == UNION {[1..n -> NerValues] : n \in 0..MaxNer}

\* line 70
IsLong(w) == Len(w) > 3
LongWords(t) == SelectSeq(SplitWs(t), IsLong)

\* line 69
NeedsPaddingOffByOne(ents) == Len(ents) <= 5
NeedsPadding(ents) == Len(ents) < 5

\* line 71
SampleSize(words) == Min(10, Len(words))

\* line 72: list(dict.fromkeys(entities))
RECURSIVE DedupFrom(_, _)
DedupFrom(seen, rest) ==
    IF rest = <<>> THEN seen
    ELSE DedupFrom(IF rest[1] \in Range(seen) THEN seen ELSE Append(seen, rest[1]), Tail(rest))

RECURSIVE DedupKeepLast(_)
DedupKeepLast(s) ==
    IF s = <<>> THEN <<>>
    ELSE IF s[1] \in Range(Tail(s)) THEN DedupKeepLast(Tail(s))
    ELSE <<s[1]>> \o DedupKeepLast(Tail(s))

Dedup(s) == DedupFrom(<<>>, s)

\* lines 65-68, the NER call returning one of results
RunNer(results) ==
    /\ pc = "e_entry"
    /\ IF nlp
       THEN \E r \in results : entities' = r /\ nerEnts' = r
       ELSE entities' = <<>> /\ nerEnts' = <<>>
    /\ padding' = <<>>
    /\ padded' = FALSE
    /\ pc' = "e_pad"
    /\ UNCHANGED <<caller, nlp, text_generator, text_data, kg>>
    /\ UNCHANGED <<extractVars, quizVars>>

\* line 67: nlp(text) raises; nothing in extract_entities catches it
NerRaises ==
    /\ pc = "e_entry"
    /\ nlp
    /\ pc' = "uncaught"
    /\ UNCHANGED <<caller, nlp, text_generator, text_data, kg>>
    /\ UNCHANGED <<extractVars, entityVars, quizVars>>

\* lines 69-71
Pad ==
    /\ pc = "e_pad"
    /\ IF NeedsPadding(entities)
       THEN LET words == LongWords(text_data)
            IN \E s \in SampleOutcomes(words, SampleSize(words)) :
                  /\ entities' = entities \o s
                  /\ padding' = s
                  /\ padded' = TRUE
       ELSE UNCHANGED <<entities, padding, padded>>
    /\ pc' = "e_return"
    /\ UNCHANGED <<caller, nlp, text_generator, text_data, kg, nerEnts>>
    /\ UNCHANGED <<extractVars, quizVars>>

\* line 72
DedupReturn ==
    /\ pc = "e_return"
    /\ entities' = Dedup(entities)
    /\ pc' = IF caller = "start_quiz" THEN "kg_loop" ELSE "e_done"
    /\ i' = 1
    /\ UNCHANGED <<caller, nlp, text_generator, text_data, kg, nerEnts, padding, padded>>
    /\ UNCHANGED <<filepath, file, ext, text, pages, taken, ocrPages, warned, retText>>
    /\ UNCHANGED quizVars

\* a call extract_entities(text)
InitEntities ==
    /\ pc = "e_entry"
    /\ caller = "none"
    /\ nlp \in BOOLEAN
    /\ text_generator = nlp
    /\ filepath = <<>> /\ file = <<>> /\ ext = <<>> /\ text = <<>>
    /\ pages = <<>> /\ i = 0 /\ taken = {} /\ ocrPages = {}
    /\ warned = FALSE /\ retText = <<>>
    /\ text_data \in Texts
    /\ entities = <<>> /\ nerEnts = <<>>
    /\ padding = <<>> /\ padded = FALSE
    /\ kg = <<>> /\ quiz_questions = <<>> /\ genLog = <<>>
    /\ out = <<>> /\ exitAt = 0

NextEntities == RunNer(NerResults) \/ NerRaises \/ Pad \/ DedupReturn

SpecEntities == InitEntities /\ [][NextEntities]_vars

-----------------------------------------------------------------------------
(* C4, C8: extract_entities *)

C4_FirstIndex(s, v) == CHOOSE n \in DOMAIN s : s[n] = v /\ \A m \in DOMAIN s : s[m] = v => n <= m

\* C4: the returned list has no duplicates and is the NER entities followed by
\* the padding tokens with every occurrence after the first removed: the same
\* strings, in the order of their first occurrences.
C4_DedupFirstSeen ==
    pc = "e_done" =>
        LET all == nerEnts \o padding
        IN /\ \A a, b \in DOMAIN entities : a # b => entities[a] # entities[b]
           /\ Range(entities) = Range(all)
           /\ \A a, b \in DOMAIN entities :
                 a < b => C4_FirstIndex(all, entities[a]) < C4_FirstIndex(all, entities[b])

\* a padding token repeated a NER entity, and a NER entity occurred twice
C4_Witness ==
    /\ pc = "e_done"
    /\ \E n \in DOMAIN padding : padding[n] \in Range(nerEnts)
    /\ \E a, b \in DOMAIN nerEnts : a < b /\ nerEnts[a] = nerEnts[b] /\ nerEnts[1] # nerEnts[a]
    /\ Len(entities) >= 3

\* C8: padding happens exactly when nlp is None or the NER call gave fewer
\* than 5 results (before deduplication); it adds min(10, number of long tokens)
\* tokens, drawn without replacement from the whitespace separated tokens of
\* the text longer than 3 characters; otherwise nothing is added and the result
\* holds NER entities only.
C8_PaddingRule ==
    pc \in {"e_return", "e_done"} =>
        LET long == LongWords(text_data)
        IN /\ padded <=> (~nlp \/ Len(nerEnts) < 5)
           /\ padded =>
                 /\ Len(padding) = (IF Len(long) < 10 THEN Len(long) ELSE 10)
                 /\ \A v \in Range(padding) : Len(v) > 3 /\ Count(padding, v) <= Count(long, v)
           /\ ~padded =>
                 /\ padding = <<>>
                 /\ Range(entities) \subseteq Range(nerEnts)

\* four NER results and more than ten long tokens: ten tokens were added
C8_Witness ==
    /\ pc = "e_done"
    /\ nlp
    /\ Len(nerEnts) = 4
    /\ padded
    /\ Len(LongWords(text_data)) > 10
    /\ Len(padding) = 10

-----------------------------------------------------------------------------
(* build_knowledge_graph *)

\* The list random.sample returns is kept as a bag (string -> number of
\* occurrences): the order of the sampled list is dropped, its length and
\* its multiplicities are kept.
RECURSIVE SumOver(_, _)
SumOver(f, dom) ==
    IF dom = {} THEN 0
    ELSE LET v == CHOOSE v \in dom : TRUE IN f[v] + SumOver(f, dom \ {v})

BagSize(b) == SumOver(b, DOMAIN b)

\* random.sample raises ValueError for a sample larger than the population or negative
SampleRaises(population, k) == k < 0 \/ k > Len(population)

\* random.sample(population, k) as a bag: k distinct positions are chosen
SampleBags(population, k) ==
    {[v \in {population[n] : n \in S} |-> Cardinality({n \in S : population[n] = v})] :
        S \in {T \in SUBSET DOMAIN population : Cardinality(T) = k}}

\* line 118: [e for e in entities if e != ent]
OthersWithSelf(ents, ent) == ents
Others(ents, ent) == LET differs(e) == e # ent IN SelectSeq(ents, differs)

\* line 118: min(3, len(entities) - 1)
RelatedCount(ents) == Min(3, Len(ents) - 1)

\* lines 117-119: one iteration of the loop
KgStep ==
    /\ pc = "kg_loop"
    /\ i <= Len(entities)
    /\ LET ent == entities[i]
           population == Others(entities, ent)
           k == RelatedCount(entities)
       IN IF SampleRaises(population, k)
          THEN /\ pc' = "uncaught"
               /\ UNCHANGED <<kg, i>>
          ELSE /\ \E related \in SampleBags(population, k) :
                     kg' = [e \in DOMAIN kg \cup {ent} |-> IF e = ent THEN related ELSE kg[e]]
               /\ i' = i + 1
               /\ pc' = "kg_loop"
    /\ UNCHANGED <<caller, nlp, text_generator, text_data>>
    /\ UNCHANGED <<filepath, file, ext, text, pages, taken, ocrPages, warned, retText>>
    /\ UNCHANGED <<entityVars, quizVars>>

\* line 120
KgReturn ==
    /\ pc = "kg_loop"
    /\ i > Len(entities)
    /\ pc' = IF caller = "start_quiz" THEN "g_loop" ELSE "kg_done"
    /\ i' = 1
    /\ UNCHANGED <<caller, nlp, text_generator, text_data, kg>>
    /\ UNCHANGED <<filepath, file, ext, text, pages, taken, ocrPages, warned, retText>>
    /\ UNCHANGED <<entityVars, quizVars>>

KgName(n) == [m \in 1..n |-> "k"]

\* duplicate-free entity lists
KgLists == {[m \in 1..n |-> KgName(m)] : n \in 0..MaxKgEntities}

\* a call build_knowledge_graph(entities)
InitKg ==
    /\ pc = "kg_loop"
    /\ caller = "none"
    /\ nlp = FALSE /\ text_generator = FALSE
    /\ filepath = <<>> /\ file = <<>> /\ ext = <<>> /\ text = <<>>
    /\ pages = <<>> /\ i = 1 /\ taken = {} /\ ocrPages = {}
    /\ warned = FALSE /\ retText = <<>>
    /\ text_data = <<>>
    /\ entities \in KgLists
    /\ nerEnts = <<>> /\ padding = <<>> /\ padded = FALSE
    /\ kg = <<>> /\ quiz_questions = <<>> /\ genLog = <<>>
    /\ out = <<>> /\ exitAt = 0

NextKg == KgStep \/ KgReturn

SpecKg == InitKg /\ [][NextKg]_vars

\* C10: for a duplicate-free list of n entities build_knowledge_graph does not
\* raise (also for n = 0 and n = 1) and returns a mapping whose keys are
\* exactly the entities, each mapped to min(3, n-1) pairwise distinct
\* entities of the list, none of them the key.
C10_KnowledgeGraphShape ==
    /\ pc # "uncaught"
    /\ pc = "kg_done" =>
          LET n == Len(entities)
          IN /\ DOMAIN kg = Range(entities)
             /\ \A key \in DOMAIN kg :
                   /\ BagSize(kg[key]) = (IF n - 1 < 3 THEN n - 1 ELSE 3)
                   /\ \A e \in DOMAIN kg[key] : kg[key][e] = 1
                   /\ DOMAIN kg[key] \subseteq Range(entities) \ {key}

\* five entities: every key got 3 of the 4 others, and two keys got different ones
C10_Witness ==
    /\ pc = "kg_done"
    /\ Len(entities) = 5
    /\ \A key \in DOMAIN kg : BagSize(kg[key]) = 3
    /\ \E a, b \in DOMAIN kg : DOMAIN kg[a] \cup {a} # DOMAIN kg[b] \cup {b}

-----------------------------------------------------------------------------
(* generate_quiz_question *)

QuestionMarker == <<"Q", "u", "e", "s", "t", "i", "o", "n", ":">>
AnswerMarker == <<"A", "n", "s", "w", "e", "r", ":">>
DistractorsMarker == <<"D", "i", "s", "t", "r", "a", "c", "t", "o", "r", "s", ":">>

Letters == <<"A", "B", "C", "D">>

\* lines 79 and 110
PlaceholderNoQuestion(entity) ==
    [question |-> <<>>,
     options |-> << <<"A", ")", " ", "Y", "e", "s">>, <<"B", ")", " ", "N", "o">>,
                    <<"C", ")", " ", "M", "a", "y", "b", "e">>, <<"D", ")", " ", "N", "/", "A">> >>,
     answer |-> <<"A">>]
Placeholder(entity) ==
    [question |-> entity,
     options |-> << <<"A", ")", " ", "Y", "e", "s">>, <<"B", ")", " ", "N", "o">>,
                    <<"C", ")", " ", "M", "a", "y", "b", "e">>, <<"D", ")", " ", "N", "/", "A">> >>,
     answer |-> <<"A">>]

NonEmpty(x) == x # <<>>

\* line 93: [l.strip() for l in gen.splitlines() if l.strip()]
GenLines(gen) ==
    LET raw == SplitOn(gen, "\n")
    IN SelectSeq([n \in DOMAIN raw |-> Strip(raw[n])], NonEmpty)

\* lines 94-96: next((l.split(marker)[-1].strip() for l in lines if marker in l), default)
FirstWith(lines, marker, default) ==
    LET at == {n \in DOMAIN lines : Contains(lines[n], marker)}
    IN IF at = {} THEN default
       ELSE Strip(AfterLast(lines[CHOOSE n \in at : \A m \in at : n <= m], marker))

\* line 97
ParseDistractors(line) ==
    LET raw == SplitOn(line, ",")
    IN SelectSeq([n \in DOMAIN raw |-> Strip(raw[n])], NonEmpty)

\* line 99: [w for w in material.split() if w.lower() != answer.lower()]
PadCandidates(material, answer) ==
    LET differs(w) == Lower(w) # Lower(answer)
    IN SelectSeq(SplitWs(material), differs)

\* line 106
FormatOption(letter, option) == <<letter, ")", " ">> \o option

\* line 107: letters[all_options.index(answer)]
CorrectLetterUnshuffled(all_options, answer) == <<Letters[1]>>
CorrectLetter(all_options, answer) ==
    <<Letters[CHOOSE n \in DOMAIN all_options :
                 all_options[n] = answer /\ \A m \in DOMAIN all_options : all_options[m] = answer => n <= m]>>

\* line 104: random.shuffle
Shuffles(s) ==
    {[n \in DOMAIN s |-> s[p[n]]] :
        p \in {q \in [DOMAIN s -> DOMAIN s] : \A a, b \in DOMAIN s : a # b => q[a] # q[b]}}

\* the results generate_quiz_question(entity, material) can return, with the
\* path that led to each and the answer text that was parsed; g is the
\* outcome of the text_generator call (it raises, or it returns g.text)
QuestionOutcomes(tg, entity, material, g) ==
    IF ~tg
    THEN {[q |-> Placeholder(entity), path |-> "absent", parsed |-> <<>>]}
    ELSE IF g.raises
    THEN {[q |-> Placeholder(entity), path |-> "except", parsed |-> <<>>]}
    ELSE LET lines == GenLines(g.text)
             question == FirstWith(lines, QuestionMarker, entity)
             answer == FirstWith(lines, AnswerMarker, entity)
             distractors == ParseDistractors(FirstWith(lines, DistractorsMarker, <<>>))
             need == IF Len(distractors) < 3 THEN 3 - Len(distractors) ELSE 0
             cands == PadCandidates(material, answer)
         IN IF need > 0 /\ cands = <<>>
            THEN \* random.choice of an empty list raises IndexError
                 {[q |-> Placeholder(entity), path |-> "except", parsed |-> answer]}
            ELSE {[q |-> [question |-> question,
                          options |-> [n \in 1..4 |-> FormatOption(Letters[n], all_options[n])],
                          answer |-> CorrectLetter(all_options, answer)],
                   path |-> "generated",
                   parsed |-> answer] :
                    all_options \in UNION {Shuffles(<<answer>> \o SubSeq(distractors \o extra, 1, 3)) :
                                              extra \in [1..need -> Range(cands)]}}

NoCall == [raises |-> FALSE, text |-> <<>>]

\* line 144: generate_quiz_question for the next of entities[:10]
GenStep(gens) ==
    /\ pc = "g_loop"
    /\ i <= Min(10, Len(entities))
    /\ \E g \in (IF text_generator THEN gens ELSE {NoCall}) :
         \E o \in QuestionOutcomes(text_generator, entities[i], text_data, g) :
            /\ quiz_questions' = Append(quiz_questions, o.q)
            /\ genLog' = Append(genLog, [gen |-> g, path |-> o.path, parsed |-> o.parsed,
                                          entity |-> entities[i]])
    /\ i' = i + 1
    /\ UNCHANGED <<pc, caller, nlp, text_generator, text_data, kg, out, exitAt>>
    /\ UNCHANGED <<filepath, file, ext, text, pages, taken, ocrPages, warned, retText>>
    /\ UNCHANGED entityVars

\* line 144, end of the comprehension
GenDone ==
    /\ pc = "g_loop"
    /\ i > Min(10, Len(entities))
    /\ pc' = IF caller = "start_quiz" THEN "q_loop" ELSE "g_done"
    /\ i' = 1
    /\ UNCHANGED <<caller, nlp, text_generator, text_data, kg>>
    /\ UNCHANGED <<filepath, file, ext, text, pages, taken, ocrPages, warned, retText>>
    /\ UNCHANGED <<entityVars, quizVars>>

GenLineSet ==
    {QuestionMarker \o <<" ", "q">>,
     AnswerMarker \o <<" ", "p">>,
     AnswerMarker,
     DistractorsMarker \o <<" ", "r", ",", " ", "o", ",", "x">>,
     DistractorsMarker \o <<"r", ",", ",", "p">>,
     DistractorsMarker \o <<"r", ",", "o", ",", "x", ",", "y">>,
     <<" ", "j", "u", "n", "k", " ">>}

GenTexts == {Join(<<"\n">>, ls) : ls \in UNION {[1..n -> GenLineSet] : n \in 0..MaxGenLines}}

GenOutcomes == {[raises |-> TRUE, text |-> <<>>]} \cup {[raises |-> FALSE, text |-> t] : t \in GenTexts}

QuestionEntities == {<<"p">>, <<"z">>}
QuestionMaterials == {<<>>, <<"p">>, <<"P", " ", "r">>, <<"p", " ", "r", "\n", "o">>}

\* a call generate_quiz_question(entity, material)
InitQuestion ==
    /\ pc = "g_loop"
    /\ caller = "none"
    /\ nlp \in BOOLEAN
    /\ text_generator = nlp
    /\ filepath = <<>> /\ file = <<>> /\ ext = <<>> /\ text = <<>>
    /\ pages = <<>> /\ i = 1 /\ taken = {} /\ ocrPages = {}
    /\ warned = FALSE /\ retText = <<>>
    /\ text_data \in QuestionMaterials
    /\ \E e \in QuestionEntities : entities = <<e>>
    /\ nerEnts = <<>> /\ padding = <<>> /\ padded = FALSE
    /\ kg = <<>> /\ quiz_questions = <<>> /\ genLog = <<>>
    /\ out = <<>> /\ exitAt = 0

NextQuestion == GenStep(GenOutcomes) \/ GenDone

SpecQuestion == InitQuestion /\ [][NextQuestion]_vars

-----------------------------------------------------------------------------
(* C1, C7: generate_quiz_question *)

\* C1: every question returned has exactly 4 options, labelled A), B), C), D)
\* in that order, and an answer label among A, B, C, D that is the label of
\* exactly one option; on the generated path the option with that label holds
\* the parsed answer text.
C1_FourLabelledOptions ==
    \A n \in DOMAIN quiz_questions :
        LET q == quiz_questions[n]
        IN /\ Len(q.options) = 4
           /\ \A m \in 1..4 :
                 /\ Len(q.options[m]) >= 3
                 /\ SubSeq(q.options[m], 1, 3) = <<Letters[m], ")", " ">>
           /\ q.answer \in {<<"A">>, <<"B">>, <<"C">>, <<"D">>}
           /\ Cardinality({m \in 1..4 : <<q.options[m][1]>> = q.answer}) = 1
           /\ genLog[n].path = "generated" =>
                 \E m \in 1..4 :
                    /\ <<q.options[m][1]>> = q.answer
                    /\ SubSeq(q.options[m], 4, Len(q.options[m])) = genLog[n].parsed

\* a generated question whose correct option is not the first and whose
\* distractors repeat the answer text
C1_Witness ==
    \E n \in DOMAIN quiz_questions :
        /\ pc = "g_done"
        /\ genLog[n].path = "generated"
        /\ quiz_questions[n].answer = <<"C">>
        /\ Cardinality({m \in 1..4 :
              SubSeq(quiz_questions[n].options[m], 4, Len(quiz_questions[n].options[m]))
                 = genLog[n].parsed}) = 2

C7_Fixed(entity) ==
    [question |-> entity,
     options |-> << <<"A", ")", " ", "Y", "e", "s">>, <<"B", ")", " ", "N", "o">>,
                    <<"C", ")", " ", "M", "a", "y", "b", "e">>, <<"D", ")", " ", "N", "/", "A">> >>,
     answer |-> <<"A">>]

C7_LacksMarker(t) ==
    \/ ~Contains(t, QuestionMarker)
    \/ ~Contains(t, AnswerMarker)
    \/ ~Contains(t, DistractorsMarker)

\* C7 as claimed: the fixed placeholder is returned whenever the generator is
\* absent, the call or the parsing raises, or the output lacks one of the
\* three markers.
C7_PlaceholderOnMalformed ==
    \A n \in DOMAIN quiz_questions :
        (\/ ~text_generator
         \/ genLog[n].gen.raises
         \/ genLog[n].path = "except"
         \/ C7_LacksMarker(genLog[n].gen.text))
        => quiz_questions[n] = C7_Fixed(genLog[n].entity)

\* C7 amended: the fixed placeholder is returned whenever the generator is
\* absent or the call or the parsing raises; an output that lacks a marker is
\* handled on the generated path: a missing question and a missing answer
\* default to the entity, and missing distractors are words of the material
\* that differ from the answer ignoring case.
C7_PlaceholderOnAbsentOrRaise ==
    \A n \in DOMAIN quiz_questions :
        LET e == genLog[n]
            q == quiz_questions[n]
        IN /\ ~text_generator => e.path = "absent"
           /\ (text_generator /\ e.gen.raises) => e.path = "except"
           /\ e.path \in {"absent", "except"} => q = C7_Fixed(e.entity)
           /\ (e.path = "generated" /\ ~Contains(e.gen.text, QuestionMarker)) => q.question = e.entity
           /\ (e.path = "generated" /\ ~Contains(e.gen.text, AnswerMarker)) => e.parsed = e.entity
           /\ (e.path = "generated" /\ ~Contains(e.gen.text, DistractorsMarker)) =>
                 \A m \in 1..4 :
                    LET t == SubSeq(q.options[m], 4, Len(q.options[m]))
                    IN \/ t = e.parsed
                       \/ t \in Range(SplitWs(text_data)) /\ Lower(t) # Lower(e.parsed)

\* the parsing raised (no word of the material to pad the distractors with)
\* and the placeholder came back; the generator itself had returned text
C7_Witness ==
    \E n \in DOMAIN quiz_questions :
        /\ pc = "g_done"
        /\ text_generator
        /\ ~genLog[n].gen.raises
        /\ genLog[n].gen.text # <<>>
        /\ genLog[n].path = "except"
        /\ quiz_questions[n] = C7_Fixed(genLog[n].entity)

-----------------------------------------------------------------------------
(* start_quiz *)

Event(ev, n, raw, ok) == [ev |-> ev, n |-> n, raw |-> raw, ok |-> ok]
Msg(ev) == Event(ev, 0, <<>>, FALSE)

ChoiceInputs == {<<"1">>, <<" ", "1", "\n">>, <<"2">>, <<"2", " ">>, <<>>, <<"3">>, <<"1", "2">>}

QuizWord(n) == [m \in 1..(3 + n) |-> "w"]

\* study material of a run: nothing, white space, or up to MaxQuizWords long tokens
QuizTexts == {<<>>, <<" ">>} \cup {TextOf([m \in 1..n |-> QuizWord(m)]) : n \in 1..MaxQuizWords}

QuizUnits == {[has |-> TRUE, layer |-> QuizWord(1), ocr |-> <<>>],
              [has |-> FALSE, layer |-> <<>>, ocr |-> QuizWord(2) \o <<" ">>]}
QuizFiles == {<<>>} \cup {<<u>> : u \in QuizUnits} \cup {<<u, v>> : u, v \in QuizUnits}

QuizPathInputs ==
    {<<" ", "a", ".", "t", "x", "t">>, <<"a", ".", "D", "O", "C", "X", " ">>,
     <<"d", "/", "a", ".", "p", "d", "f">>, <<"a", ".", "p", "p", "t", "x">>,
     <<"a", ".", "J", "P", "G">>, <<"a", ".", "m", "d">>}

\* what the NER call may return for a text: spans of the text; fewer than 5
\* for a text of at most one token, 5 for a longer one
QuizNerResults(t) ==
    LET ws == SplitWs(t)
    IN IF Len(ws) <= 1 THEN {<<>>, ws}
       ELSE {[n \in 1..5 |-> ws[((n - 1) % Len(ws)) + 1]]}

\* what the generator may do in a run: raise, or answer with a distractor
\* line that repeats the answer
QuizGenOutcomes ==
    {[raises |-> TRUE, text |-> <<>>],
     [raises |-> FALSE,
      text |-> AnswerMarker \o <<" ", "p", "\n">> \o DistractorsMarker \o <<" ", "p", ",", "p", ",", "r">>]}

AnswerInputs ==
    {<<"a">>, <<" ", "B", "\n">>, <<>>,
     <<"e", "x", "i", "t">>, <<" ", "E", "x", "I", "t", "\n">>, <<"E", "X", "I", "T", " ">>,
     <<"e", "x", "i", "t", " ", "x">>}

\* lines 127, 129-130: choice 1, the text is pasted
Paste ==
    /\ pc = "sq_entry"
    /\ \E raw \in ChoiceInputs : Strip(raw) = <<"1">>
    /\ \E t \in QuizTexts : text_data' = t
    /\ out' = Append(out, Msg("generating"))
    /\ pc' = "e_entry"
    /\ UNCHANGED <<caller, nlp, text_generator, kg, quiz_questions, genLog, exitAt>>
    /\ UNCHANGED <<extractVars, entityVars>>

\* lines 127, 131-135: choice 2, the path names an existing file
EnterPath ==
    /\ pc = "sq_entry"
    /\ \E raw \in ChoiceInputs : Strip(raw) = <<"2">>
    /\ \E rawPath \in QuizPathInputs : filepath' = Strip(rawPath)
    /\ \E f \in QuizFiles : file' = f
    /\ pc' = "x_entry"
    /\ UNCHANGED <<caller, nlp, text_generator, ext, text, pages, i, taken, ocrPages,
                   warned, retText, text_data, kg>>
    /\ UNCHANGED <<entityVars, quizVars>>

\* lines 127, 131-134: choice 2, os.path.exists is false
FileNotFound ==
    /\ pc = "sq_entry"
    /\ \E raw \in ChoiceInputs : Strip(raw) = <<"2">>
    /\ \E rawPath \in QuizPathInputs : filepath' = Strip(rawPath)
    /\ out' = Append(out, Msg("file_not_found"))
    /\ pc' = "returned"
    /\ UNCHANGED <<caller, nlp, text_generator, file, ext, text, pages, i, taken, ocrPages,
                   warned, retText, text_data, kg, quiz_questions, genLog, exitAt>>
    /\ UNCHANGED entityVars

\* lines 127, 138-139
InvalidChoice ==
    /\ pc = "sq_entry"
    /\ \E raw \in ChoiceInputs : Strip(raw) \notin {<<"1">>, <<"2">>}
    /\ out' = Append(out, Msg("invalid_choice"))
    /\ pc' = "returned"
    /\ UNCHANGED <<caller, nlp, text_generator, text_data, kg, quiz_questions, genLog, exitAt>>
    /\ UNCHANGED <<extractVars, entityVars>>

\* lines 135-137 and 141: the text came back from extract_text_from_file
AfterExtract ==
    /\ pc = "sq_after_extract"
    /\ text_data' = retText
    /\ IF retText = <<>>
       THEN /\ out' = Append(out, Msg("no_text_in_file"))
            /\ pc' = "returned"
       ELSE /\ out' = Append(out, Msg("generating"))
            /\ pc' = "e_entry"
    /\ UNCHANGED <<caller, nlp, text_generator, kg, quiz_questions, genLog, exitAt>>
    /\ UNCHANGED <<extractVars, entityVars>>

\* line 151: input(...).strip().upper()
NormalizeNoUpper(raw) == Strip(raw)
Normalize(raw) == Upper(Strip(raw))

\* line 152
IsExit(ans) == ans = <<"E", "X", "I", "T">>

\* lines 147-156: question i is shown and answered, and graded
AnswerQuestion ==
    /\ pc = "q_loop"
    /\ i <= Len(quiz_questions)
    /\ \E raw \in AnswerInputs :
          /\ ~IsExit(Normalize(raw))
          /\ out' = out \o <<Event("question", i, <<>>, FALSE),
                             Event("input", i, raw, FALSE),
                             Event("graded", i, <<>>, Normalize(raw) = quiz_questions[i].answer)>>
    /\ i' = i + 1
    /\ UNCHANGED <<pc, caller, nlp, text_generator, text_data, kg, quiz_questions, genLog, exitAt>>
    /\ UNCHANGED <<filepath, file, ext, text, pages, taken, ocrPages, warned, retText>>
    /\ UNCHANGED entityVars

\* lines 147-152: question i is shown and answered with the sentinel
ExitQuiz ==
    /\ pc = "q_loop"
    /\ i <= Len(quiz_questions)
    /\ \E raw \in AnswerInputs :
          /\ IsExit(Normalize(raw))
          /\ out' = out \o <<Event("question", i, <<>>, FALSE), Event("input", i, raw, FALSE)>>
    /\ exitAt' = i
    /\ pc' = "sq_finish"
    /\ UNCHANGED <<caller, nlp, text_generator, text_data, kg, quiz_questions, genLog, i>>
    /\ UNCHANGED <<filepath, file, ext, text, pages, taken, ocrPages, warned, retText>>
    /\ UNCHANGED entityVars

\* line 147: the questions are exhausted
QuizEnd ==
    /\ pc = "q_loop"
    /\ i > Len(quiz_questions)
    /\ pc' = "sq_finish"
    /\ UNCHANGED <<caller, nlp, text_generator, text_data, kg, i>>
    /\ UNCHANGED <<filepath, file, ext, text, pages, taken, ocrPages, warned, retText>>
    /\ UNCHANGED <<entityVars, quizVars>>

\* lines 158-161
Finish ==
    /\ pc = "sq_finish"
    /\ out' = out \o <<Msg("quiz_finished"), Msg("knowledge_graph")>>
    /\ pc' = "done"
    /\ UNCHANGED <<caller, nlp, text_generator, text_data, kg, i, quiz_questions, genLog, exitAt>>
    /\ UNCHANGED <<filepath, file, ext, text, pages, taken, ocrPages, warned, retText>>
    /\ UNCHANGED entityVars

\* lines 14-21 and 126: both models loaded, or both None
Init ==
    /\ pc = "sq_entry"
    /\ caller = "start_quiz"
    /\ nlp \in BOOLEAN
    /\ text_generator = nlp
    /\ filepath = <<>> /\ file = <<>> /\ ext = <<>> /\ text = <<>>
    /\ pages = <<>> /\ i = 0 /\ taken = {} /\ ocrPages = {}
    /\ warned = FALSE /\ retText = <<>>
    /\ text_data = <<>> /\ entities = <<>> /\ nerEnts = <<>>
    /\ padding = <<>> /\ padded = FALSE
    /\ kg = <<>> /\ quiz_questions = <<>> /\ genLog = <<>>
    /\ out = <<>> /\ exitAt = 0

Next ==
    \/ Paste \/ EnterPath \/ FileNotFound \/ InvalidChoice
    \/ ExtractSteps
    \/ AfterExtract
    \/ RunNer(QuizNerResults(text_data)) \/ NerRaises \/ Pad \/ DedupReturn
    \/ KgStep \/ KgReturn
    \/ GenStep(QuizGenOutcomes) \/ GenDone
    \/ AnswerQuestion \/ ExitQuiz \/ QuizEnd
    \/ Finish

Spec == Init /\ [][Next]_vars

-----------------------------------------------------------------------------
(* C2, C6, C9: start_quiz *)

\* an answer is the exit sentinel when, white space around it removed and
\* letter case ignored, it reads exit
C2_IsSentinel(raw) == Lower(Strip(raw)) = <<"e", "x", "i", "t">>

\* C2: at whatever question the sentinel is typed, the loop ends at once:
\* that question is not graded, no later question is shown or asked, and the
\* run goes on to print the end of the quiz and the knowledge graph.
C2_ExitEndsQuiz ==
    \A a \in DOMAIN out :
        (out[a].ev = "input" /\ C2_IsSentinel(out[a].raw)) =>
            /\ exitAt = out[a].n
            /\ pc \in {"sq_finish", "done"}
            /\ \A b \in DOMAIN out :
                  /\ ~(out[b].ev = "graded" /\ out[b].n = out[a].n)
                  /\ ~(out[b].ev \in {"question", "input"} /\ out[b].n > out[a].n)
            /\ pc = "done" =>
                  /\ Len(out) = a + 2
                  /\ out[a + 1].ev = "quiz_finished"
                  /\ out[a + 2].ev = "knowledge_graph"

\* the sentinel, in mixed case and with white space, was typed at the second
\* of three questions, after the first was graded, and the run finished
C2_Witness ==
    /\ pc = "done"
    /\ Len(quiz_questions) = 3
    /\ exitAt = 2
    /\ \E a \in DOMAIN out :
          /\ out[a].ev = "input" /\ out[a].n = 2
          /\ out[a].raw = <<" ", "E", "x", "I", "t", "\n">>
    /\ \E b \in DOMAIN out : out[b].ev = "graded" /\ out[b].n = 1

\* C6: once the input is obtained, no failing decoding, NER or generator call
\* ends the run with an uncaught exception.
C6_NoUncaughtException == pc # "uncaught"

\* C9: on both input routes empty study material ends the run before term
\* extraction, question generation and the quiz loop.
C9_EmptyMaterialEndsRun ==
    pc \in {"e_entry", "e_pad", "e_return", "kg_loop", "g_loop", "q_loop", "sq_finish", "done"}
        => text_data # <<>>

====
